---- MODULE Spec2Model ----
(***************************************************************************)
(* Differential perft validator of heimdall: tests/compare_positions.py    *)
(* (one validation of one position against the reference engine) and       *)
(* tests/suite.py (the sequential / thread-pool orchestrator).             *)
(*                                                                         *)
(* Text is modelled as sequences of character codes, an engine's output as *)
(* a sequence of lines, a Python dict as an insertion-ordered sequence of  *)
(* <<key, value>> pairs with unique keys.                                  *)
(***************************************************************************)
EXTENDS Integers, Sequences, FiniteSets, TLC

VARIABLES
    mode,        \* "single": compare_positions.py run alone; else args.parallel
    bulk,        \* args.bulk
    workers,     \* args.workers
    positions,   \* lines of args.positions_file
    val,         \* val[t]: the locals of the t-th call of compare_positions.main
    spc,         \* position of suite.main's thread
    idx,         \* loop index of suite.main (next position / next submission)
    argsFen,     \* args.fen of the Namespace suite.main currently holds
    successful,  \* suite.main: successful
    failed,      \* suite.main: failed
    futures,     \* suite.main: futures, as a sequence of [task, fen]
    queue,       \* ThreadPoolExecutor work queue (task ids, FIFO)
    threads,     \* worker threads the pool has spawned
    fut,         \* fut[t]: state of the future of task t
    yielded,     \* futures as_completed has handed to the loop, in order
    summary,     \* the summary line printed, <<>> while none is
    calls        \* history: the calls of compare_positions.main, in call order

vars == <<mode, bulk, workers, positions, val, spc, idx, argsFen, successful,
          failed, futures, queue, threads, fut, yielded, summary, calls>>

suiteVars == <<spc, idx, argsFen, successful, failed, futures, queue, threads,
               fut, yielded, summary, calls>>

(***************************************************************************)
(* Bounds of the model.                                                    *)
(***************************************************************************)
MaxLines == 2        \* lines of one engine's output, single validation
NumPositions == 2    \* lines of the positions file

(***************************************************************************)
(* Text.                                                                   *)
(***************************************************************************)
\* Python's str comparison: by code point, a proper prefix sorts first.
RECURSIVE StrLess(_, _)
StrLess(a, b) ==
    IF b = <<>> THEN FALSE
    ELSE IF a = <<>> THEN TRUE
    ELSE IF a[1] # b[1] THEN a[1] < b[1]
    ELSE StrLess(Tail(a), Tail(b))

\* int(nodes) of a string of decimal digits (code points 48..57)
RECURSIVE IntOf(_)
IntOf(digits) ==
    IF digits = <<>> THEN 0
    ELSE 10 * IntOf(SubSeq(digits, 1, Len(digits) - 1)) + (digits[Len(digits)] - 48)

\* [a-h][1-8]
IsSquare(s) == Len(s) = 2 /\ s[1] \in 97..104 /\ s[2] \in 49..56

\* (b|n|q|r)?
IsPromotion(s) == s = <<>> \/ (Len(s) = 1 /\ s[1] \in {98, 110, 113, 114})

\* [0-9]+
IsNumber(s) == Len(s) > 0 /\ \A i \in 1..Len(s) : s[i] \in 48..57

\* any line that ends in a number is taken for a move line
PatternMatchesNumber(line) == IsNumber(line.nodes)

\* One line of engine output, split where the move pattern would split it.
\* The pattern matches a line iff its parts have the shapes the groups ask for.
PatternMatches(line) ==
    /\ IsSquare(line.source)
    /\ IsSquare(line.target)
    /\ IsPromotion(line.promotion)
    /\ IsNumber(line.nodes)

MoveLine(src, tgt, promo, nodes) ==
    [source |-> src, target |-> tgt, promotion |-> promo, nodes |-> nodes]

\* a line the move pattern does not match ("Nodes searched: ...", a blank line)
TextLine == MoveLine(<<>>, <<>>, <<>>, <<>>)

e2 == <<101, 50>>
e4 == <<101, 52>>
e7 == <<101, 55>>
e8 == <<101, 56>>
promoQ == <<113>>
txt19 == <<49, 57>>
txt20 == <<50, 48>>

ModelLines ==
    {MoveLine(e7, e8, <<>>, n) : n \in {txt19, txt20}}
    \cup {MoveLine(e7, e8, promoQ, n) : n \in {txt19, txt20}}
    \cup {TextLine}

Outputs(lines, n) == UNION {[1..k -> lines] : k \in 0..n}

\* The move-type breakdown the candidate prints after its move lines, as one
\* item of output: the first k of the six lines "  - Captures: n", "  - Checks:
\* n", "  - E.P: n", "  - Checkmates: n", "  - Castles: n", "  - Promotions: n".
\* It starts with a dash and holds no square, so the move pattern does not
\* match it.
BreakdownLines(k) == MoveLine(<<45>>, <<>>, <<>>, <<48 + k>>)

\* the whole block, and a block that lacks its last line
BreakdownBlock == BreakdownLines(6)
BrokenBlock == BreakdownLines(5)

\* at most one move line, then what is given as the end of the output
EndingWith(tails) ==
    {o \o tail : o \in Outputs(ModelLines \ {TextLine}, 1), tail \in tails}

\* What the engines may print. Inside a suite run the reference prints the one
\* line e2e4: 20 and the candidate agrees with it or not.
StockfishOutputs ==
    IF mode = "single"
    THEN Outputs(ModelLines, MaxLines) \cup EndingWith({<<BreakdownBlock>>})
    ELSE {<<MoveLine(e2, e4, <<>>, txt20)>>}

HeimdallOutputs ==
    IF mode = "single"
    THEN Outputs(ModelLines, MaxLines)
         \cup EndingWith({<<BreakdownBlock>>, <<BrokenBlock>>})
    ELSE {<<MoveLine(e2, e4, <<>>, txt20)>>, <<MoveLine(e2, e4, <<>>, txt19)>>}

ExitStatuses == {0, 1}

(***************************************************************************)
(* Python dict: insertion-ordered <<key, value>> pairs.                    *)
(***************************************************************************)
DictHas(d, k) == \E i \in 1..Len(d) : d[i][1] = k

DictGet(d, k) == d[CHOOSE i \in 1..Len(d) : d[i][1] = k][2]

DictSet(d, k, v) ==
    IF DictHas(d, k)
    THEN [i \in 1..Len(d) |-> IF d[i][1] = k THEN <<k, v>> ELSE d[i]]
    ELSE Append(d, <<k, v>>)

RECURSIVE SumValues(_)
SumValues(d) == IF d = <<>> THEN 0 ELSE d[1][2] + SumValues(Tail(d))

(***************************************************************************)
(* compare_positions.main, lines 63-101: parsing and comparison.           *)
(***************************************************************************)
\* pattern.findall(output): the groups of every match, in order
FindAll(output) == SelectSeq(output, PatternMatches)

\* move = f"{source}{target}{promotion}"
MoveOf(m) == m.source \o m.target \o m.promotion

EmptyPositions == [all |-> <<>>, stockfish |-> <<>>, heimdall |-> <<>>]

\* lines 69-72
RECURSIVE ParseStockfish(_, _)
ParseStockfish(pos, matches) ==
    IF matches = <<>> THEN pos
    ELSE LET m == matches[1]
             move == MoveOf(m)
         IN ParseStockfish(
                [pos EXCEPT !.all = DictSet(@, move, <<IntOf(m.nodes)>>),
                            !.stockfish = DictSet(@, move, IntOf(m.nodes))],
                Tail(matches))

\* lines 75-78
HeimdallAll(all, move, nodes) ==
    IF DictHas(all, move)
    THEN DictSet(all, move, Append(DictGet(all, move), nodes))
    ELSE DictSet(all, move, <<nodes>>)

\* lines 73-79
RECURSIVE ParseHeimdall(_, _)
ParseHeimdall(pos, matches) ==
    IF matches = <<>> THEN pos
    ELSE LET m == matches[1]
             move == MoveOf(m)
         IN ParseHeimdall(
                [pos EXCEPT !.all = HeimdallAll(@, move, IntOf(m.nodes)),
                            !.heimdall = DictSet(@, move, IntOf(m.nodes))],
                Tail(matches))

\* lines 63-79
ParseOutputs(stockfish_output, heimdall_output) ==
    ParseHeimdall(ParseStockfish(EmptyPositions, FindAll(stockfish_output)),
                  FindAll(heimdall_output))

EmptyReport == [missing_heimdall |-> <<>>, missing_stockfish |-> <<>>, mistakes |-> {}]

\* line 96
NodesDiffer(nodes) == nodes[1] # nodes[2]

\* the two missing-lists swapped
ClassifyMoveInverted(pos, rep, move, nodes) ==
    IF ~DictHas(pos.stockfish, move)
    THEN [rep EXCEPT !.missing_stockfish = Append(@, move)]
    ELSE IF ~DictHas(pos.heimdall, move)
    THEN [rep EXCEPT !.missing_heimdall = Append(@, move)]
    ELSE IF NodesDiffer(nodes)
    THEN [rep EXCEPT !.mistakes = @ \cup {move}]
    ELSE rep

\* lines 89-97, one iteration
ClassifyMove(pos, rep, move, nodes) ==
    IF ~DictHas(pos.stockfish, move)
    THEN [rep EXCEPT !.missing_heimdall = Append(@, move)]
    ELSE IF ~DictHas(pos.heimdall, move)
    THEN [rep EXCEPT !.missing_stockfish = Append(@, move)]
    ELSE IF NodesDiffer(nodes)
    THEN [rep EXCEPT !.mistakes = @ \cup {move}]
    ELSE rep

\* lines 81-97
RECURSIVE Classify(_, _, _)
Classify(pos, rep, items) ==
    IF items = <<>> THEN rep
    ELSE Classify(pos, ClassifyMove(pos, rep, items[1][1], items[1][2]), Tail(items))

\* the greatest token first
RECURSIVE SortedDescending(_)
SortedDescending(S) ==
    IF S = {} THEN <<>>
    ELSE LET most == CHOOSE x \in S : \A y \in S \ {x} : StrLess(y, x)
         IN <<most>> \o SortedDescending(S \ {most})

\* line 98: sorted(list(mistakes))
RECURSIVE Sorted(_)
Sorted(S) ==
    IF S = {} THEN <<>>
    ELSE LET least == CHOOSE x \in S : \A y \in S \ {x} : StrLess(x, y)
         IN <<least>> \o Sorted(S \ {least})

\* lines 81-101
BuildReport(pos) ==
    LET rep == Classify(pos, EmptyReport, pos.all)
    IN [missing_heimdall |-> rep.missing_heimdall,
        missing_stockfish |-> rep.missing_stockfish,
        mistakes |-> Sorted(rep.mistakes),
        total_stockfish |-> SumValues(pos.stockfish),
        total_heimdall |-> SumValues(pos.heimdall)]

NoReport ==
    [missing_heimdall |-> <<>>, missing_stockfish |-> <<>>, mistakes |-> <<>>,
     total_stockfish |-> 0, total_heimdall |-> 0]

\* line 123
HasDiscrepancy(rep) ==
    rep.missing_stockfish # <<>> \/ rep.missing_heimdall # <<>> \/ rep.mistakes # <<>>

\* counting mistakes left out of the verdict
VerdictMissingOnly(rep) ==
    IF rep.missing_stockfish # <<>> \/ rep.missing_heimdall # <<>> THEN 1 ELSE 0

\* lines 123-157
Verdict(rep) == IF HasDiscrepancy(rep) THEN 1 ELSE 0

\* only the reference's exit status looked at
OnlyStockfishChecked(sfRc, hdRc) == sfRc = 0

\* line 61
AllExitedCleanly(sfRc, hdRc) == sfRc = 0 /\ hdRc = 0

(***************************************************************************)
(* Commands written to the engines, lines 45-54.                           *)
(***************************************************************************)
Cmd(to, cmd, arg) == [to |-> to, cmd |-> cmd, arg |-> arg]

\* lines 46-51: the two position commands
PositionCommands(fen) ==
    IF fen # <<>>
    THEN <<Cmd("heimdall", "position fen", fen), Cmd("stockfish", "position fen", fen)>>
    ELSE <<Cmd("heimdall", "position startpos", <<>>),
           Cmd("stockfish", "position startpos", <<>>)>>

\* the bulk flag is sent to the reference engine as well
CommandsBulkToBoth(fen, isBulk) ==
    <<Cmd("stockfish", "setoption UCI_Chess960", <<>>)>>
    \o PositionCommands(fen)
    \o <<Cmd("heimdall", IF isBulk THEN "go perft bulk" ELSE "go perft", <<>>),
         Cmd("stockfish", IF isBulk THEN "go perft bulk" ELSE "go perft", <<>>)>>

\* lines 45-54
Commands(fen, isBulk) ==
    <<Cmd("stockfish", "setoption UCI_Chess960", <<>>)>>
    \o PositionCommands(fen)
    \o <<Cmd("heimdall", IF isBulk THEN "go perft bulk" ELSE "go perft", <<>>),
         Cmd("stockfish", "go perft", <<>>)>>

(***************************************************************************)
(* One call of compare_positions.main.                                     *)
(***************************************************************************)
FreshCall(fen) ==
    [pc |-> "NotStarted", fen |-> fen, notFound |-> {}, notStarted |-> {},
     sfProc |-> "none", hdProc |-> "none", sent |-> <<>>,
     sfOut |-> <<>>, hdOut |-> <<>>, sfRc |-> 0, hdRc |-> 0,
     pos |-> EmptyPositions, rep |-> NoReport, result |-> <<>>]

NotCalled == [FreshCall(<<>>) EXCEPT !.pc = "Idle"]

\* The call has been left and its frame is gone: what remains of it is the
\* value it returned, the processes it spawned and what it wrote to them.
Release(v) ==
    [FreshCall(v.fen) EXCEPT !.pc = v.pc, !.result = v.result, !.sent = v.sent,
                             !.sfProc = v.sfProc, !.hdProc = v.hdProc]

\* Leaving the call. Inside a suite run the frame is dropped there; run alone,
\* the process ends there and the model keeps the frame as it was at that point.
Leave(v) == IF mode = "single" THEN v ELSE Release(v)

Returned(t) == val[t].result # <<>>

\* Scheduling. The only blocking calls of compare_positions.main are the two
\* communicate() calls (lines 55, 56). Between entering the call, the blocking
\* calls and handing the result to the caller, a thread works on its own frame
\* and its own two processes: such a stretch is not interleaved with the steps
\* of other threads. InFrame is the set of calls that are in such a stretch;
\* no other thread steps while it is non-empty.
Blocking == {"CommandsSent", "ReferenceDrained"}
Terminal == {"SetupFailed", "EngineCrashed", "Done", "Raised", "Aborted"}
InFrame ==
    {t \in DOMAIN val :
        \/ val[t].pc \notin Blocking \cup Terminal \cup {"Idle"}
        \/ val[t].pc \in Terminal /\ fut[t].state = "running"}
Code(t) == val[t].result[1]

\* lines 16-20
LocateStockfish(t) ==
    /\ val[t].pc = "NotStarted"
    /\ \E found \in BOOLEAN :
        val' = [val EXCEPT ![t] =
                   IF found THEN [@ EXCEPT !.pc = "StockfishLocated"]
                   ELSE Leave([@ EXCEPT !.pc = "SetupFailed", !.result = <<2>>,
                                        !.notFound = {"stockfish"}])]
    /\ UNCHANGED <<mode, bulk, workers, positions>>
    /\ UNCHANGED suiteVars

\* the candidate is looked for when the reference is already running
LocateHeimdallAfterStart(t) ==
    /\ val[t].pc = "StockfishLocated"
    /\ \E found \in BOOLEAN :
        val' = [val EXCEPT ![t] =
                   IF found THEN [@ EXCEPT !.pc = "Located"]
                   ELSE Leave([@ EXCEPT !.pc = "SetupFailed", !.result = <<2>>,
                                        !.notFound = {"heimdall"},
                                        !.sfProc = "running"])]
    /\ UNCHANGED <<mode, bulk, workers, positions>>
    /\ UNCHANGED suiteVars

\* lines 21-25
LocateHeimdall(t) ==
    /\ val[t].pc = "StockfishLocated"
    /\ \E found \in BOOLEAN :
        val' = [val EXCEPT ![t] =
                   IF found THEN [@ EXCEPT !.pc = "Located"]
                   ELSE Leave([@ EXCEPT !.pc = "SetupFailed", !.result = <<2>>,
                                        !.notFound = {"heimdall"}])]
    /\ UNCHANGED <<mode, bulk, workers, positions>>
    /\ UNCHANGED suiteVars

\* lines 27-34: Popen raises OSError when the file found cannot be executed
StartStockfish(t) ==
    /\ val[t].pc = "Located"
    /\ \E started \in BOOLEAN :
        val' = [val EXCEPT ![t] =
                   IF started
                   THEN [@ EXCEPT !.pc = "ReferenceStarted", !.sfProc = "running"]
                   ELSE Leave([@ EXCEPT !.pc = "Raised", !.notStarted = {"stockfish"}])]
    /\ UNCHANGED <<mode, bulk, workers, positions>>
    /\ UNCHANGED suiteVars

\* lines 36-43
StartHeimdall(t) ==
    /\ val[t].pc = "ReferenceStarted"
    /\ \E started \in BOOLEAN :
        val' = [val EXCEPT ![t] =
                   IF started
                   THEN [@ EXCEPT !.pc = "CandidateStarted", !.hdProc = "running"]
                   ELSE Leave([@ EXCEPT !.pc = "Raised", !.notStarted = {"heimdall"}])]
    /\ UNCHANGED <<mode, bulk, workers, positions>>
    /\ UNCHANGED suiteVars

\* the commands are written as soon as the reference engine is started
SendCommandsEarly(t) ==
    /\ val[t].pc = "ReferenceStarted"
    /\ val' = [val EXCEPT ![t] =
                  [@ EXCEPT !.pc = "CommandsSent",
                            !.sent = @ \o Commands(val[t].fen, bulk)]]
    /\ UNCHANGED <<mode, bulk, workers, positions>>
    /\ UNCHANGED suiteVars

\* lines 44-54
SendCommands(t) ==
    /\ val[t].pc = "CandidateStarted"
    /\ val' = [val EXCEPT ![t] =
                  [@ EXCEPT !.pc = "CommandsSent",
                            !.sent = @ \o Commands(val[t].fen, bulk)]]
    /\ UNCHANGED <<mode, bulk, workers, positions>>
    /\ UNCHANGED suiteVars

\* line 55: returns when the reference process has terminated
CommunicateStockfish(t) ==
    /\ val[t].pc = "CommandsSent"
    /\ InFrame = {}
    /\ \E out \in StockfishOutputs, rc \in ExitStatuses :
        val' = [val EXCEPT ![t] =
                   [@ EXCEPT !.pc = "ReferenceDrained", !.sfProc = "exited",
                             !.sfOut = out, !.sfRc = rc]]
    /\ UNCHANGED <<mode, bulk, workers, positions>>
    /\ UNCHANGED suiteVars

\* line 56: returns when the candidate process has terminated
CommunicateHeimdall(t) ==
    /\ val[t].pc = "ReferenceDrained"
    /\ InFrame = {}
    /\ \E out \in HeimdallOutputs, rc \in ExitStatuses :
        val' = [val EXCEPT ![t] =
                   [@ EXCEPT !.pc = "OutputCollected", !.hdProc = "exited",
                             !.hdOut = out, !.hdRc = rc]]
    /\ UNCHANGED <<mode, bulk, workers, positions>>
    /\ UNCHANGED suiteVars

\* lines 57-62
CheckExit(t) ==
    /\ val[t].pc = "OutputCollected"
    /\ val' = [val EXCEPT ![t] =
                  IF ~AllExitedCleanly(val[t].sfRc, val[t].hdRc)
                  THEN Leave([@ EXCEPT !.pc = "EngineCrashed", !.result = <<3>>])
                  ELSE [@ EXCEPT !.pc = "ExitChecked"]]
    /\ UNCHANGED <<mode, bulk, workers, positions>>
    /\ UNCHANGED suiteVars

\* lines 63-79
Parse(t) ==
    /\ val[t].pc = "ExitChecked"
    /\ val' = [val EXCEPT ![t] =
                  [@ EXCEPT !.pc = "Parsed",
                            !.pos = ParseOutputs(val[t].sfOut, val[t].hdOut)]]
    /\ UNCHANGED <<mode, bulk, workers, positions>>
    /\ UNCHANGED suiteVars

\* lines 81-121
Compare(t) ==
    /\ val[t].pc = "Parsed"
    /\ val' = [val EXCEPT ![t] =
                  [@ EXCEPT !.pc = "Compared", !.rep = BuildReport(val[t].pos)]]
    /\ UNCHANGED <<mode, bulk, workers, positions>>
    /\ UNCHANGED suiteVars

\* lines 122-157
Return(t) ==
    /\ val[t].pc = "Compared"
    /\ val' = [val EXCEPT ![t] =
                  Leave([@ EXCEPT !.pc = "Done", !.result = <<Verdict(val[t].rep)>>])]
    /\ UNCHANGED <<mode, bulk, workers, positions>>
    /\ UNCHANGED suiteVars

\* one step of a call of compare_positions.main, whoever runs it
Validate ==
    \/ \E t \in DOMAIN val : LocateStockfish(t)
    \/ \E t \in DOMAIN val : LocateHeimdall(t)
    \/ \E t \in DOMAIN val : StartStockfish(t)
    \/ \E t \in DOMAIN val : StartHeimdall(t)
    \/ \E t \in DOMAIN val : SendCommands(t)
    \/ \E t \in DOMAIN val : CommunicateStockfish(t)
    \/ \E t \in DOMAIN val : CommunicateHeimdall(t)
    \/ \E t \in DOMAIN val : CheckExit(t)
    \/ \E t \in DOMAIN val : Parse(t)
    \/ \E t \in DOMAIN val : Compare(t)
    \/ \E t \in DOMAIN val : Return(t)

(***************************************************************************)
(* compare_positions.py run on its own: one position, one call.            *)
(***************************************************************************)
SingleFens == {<<>>, <<"K">>}

InitValidator ==
    /\ mode = "single"
    /\ bulk \in BOOLEAN
    /\ workers = 1
    /\ positions = <<>>
    /\ \E fen \in SingleFens : val = [t \in {1} |-> FreshCall(fen)]
    /\ spc = "none"
    /\ idx = 0
    /\ argsFen = <<>>
    /\ successful = <<>>
    /\ failed = <<>>
    /\ futures = <<>>
    /\ queue = <<>>
    /\ threads = 0
    /\ fut = [t \in {1} |-> [state |-> "none", fen |-> <<>>]]
    /\ yielded = <<>>
    /\ summary = <<>>
    /\ calls = <<1>>

NextValidator == Validate

SpecValidator == InitValidator /\ [][NextValidator]_vars

(***************************************************************************)
(* suite.main.                                                             *)
(***************************************************************************)
\* the lines a positions file is made of: empty, or a FEN after a blank
FileLines == {<<>>, <<" ", "K">>}

\* fen.strip(" ")
RECURSIVE LStrip(_)
LStrip(s) == IF s # <<>> /\ s[1] = " " THEN LStrip(Tail(s)) ELSE s

RECURSIVE RStrip(_)
RStrip(s) ==
    IF s # <<>> /\ s[Len(s)] = " " THEN RStrip(SubSeq(s, 1, Len(s) - 1)) ELSE s

Strip(s) == RStrip(LStrip(s))

\* " " * n
Spaces(n) == [i \in 1..n |-> " "]

RECURSIVE MaxLen(_)
MaxLen(lines) ==
    IF lines = <<>> THEN 0
    ELSE LET rest == MaxLen(Tail(lines))
         IN IF Len(lines[1]) > rest THEN Len(lines[1]) ELSE rest

\* line 17
longest_fen == MaxLen(positions)

\* lines 25-26
Padded(line) == Strip(line) \o Spaces(longest_fen - Len(Strip(line)))

\* the calls of compare_positions.main that have been entered and not left
Running == {t \in DOMAIN val : val[t].pc \notin Terminal \cup {"Idle"}}

Tasks == 1..Len(positions)

NoFuture == [state |-> "none", fen |-> <<>>]

\* the values of --workers tried: fewer workers than positions, and as many
WorkerCounts == {1, 2}

InitSuite ==
    /\ mode \in {"sequential", "parallel"}
    /\ bulk = FALSE
    /\ workers \in (IF mode = "parallel" THEN WorkerCounts ELSE {1})
    /\ \E n \in 0..NumPositions : positions \in [1..n -> FileLines]
    /\ val = [t \in Tasks |-> NotCalled]
    /\ spc = "Load"
    /\ idx = 1
    /\ argsFen = <<>>
    /\ successful = <<>>
    /\ failed = <<>>
    /\ futures = <<>>
    /\ queue = <<>>
    /\ threads = 0
    /\ fut = [t \in Tasks |-> NoFuture]
    /\ yielded = <<>>
    /\ summary = <<>>
    /\ calls = <<>>

\* lines 13-22: max() of no lengths raises ValueError
Load ==
    /\ InFrame = {}
    /\ spc = "Load"
    /\ spc' = IF positions = <<>> THEN "Crashed"
              ELSE IF mode = "parallel" THEN "Pool" ELSE "Loop"
    /\ UNCHANGED <<mode, bulk, workers, positions, val, idx, argsFen, successful,
                   failed, futures, queue, threads, fut, yielded, summary, calls>>

(*------------------------- sequential mode -------------------------------*)
\* lines 24-30: the next position is handed to test(args)
SeqCall ==
    /\ InFrame = {}
    /\ spc = "Loop"
    /\ idx <= Len(positions)
    /\ argsFen' = Padded(positions[idx])
    /\ val' = [val EXCEPT ![idx] = FreshCall(Padded(positions[idx]))]
    /\ calls' = Append(calls, idx)
    /\ spc' = "InTest"
    /\ UNCHANGED <<mode, bulk, workers, positions, idx, successful, failed,
                   futures, queue, threads, fut, yielded, summary>>

\* a failed position is tried again
SeqClassifyRetry ==
    /\ InFrame = {}
    /\ spc = "InTest"
    /\ Returned(idx)
    /\ IF Code(idx) = 0
       THEN successful' = Append(successful, argsFen) /\ failed' = failed
       ELSE failed' = Append(failed, argsFen) /\ successful' = successful
    /\ idx' = IF Code(idx) = 0 THEN idx + 1 ELSE idx
    /\ spc' = "Loop"
    /\ UNCHANGED <<mode, bulk, workers, positions, val, argsFen, futures, queue,
                   threads, fut, yielded, summary, calls>>

\* lines 30-33: test(args) has returned
SeqClassify ==
    /\ InFrame = {}
    /\ spc = "InTest"
    /\ Returned(idx)
    /\ IF Code(idx) = 0
       THEN successful' = Append(successful, argsFen) /\ failed' = failed
       ELSE failed' = Append(failed, argsFen) /\ successful' = successful
    /\ idx' = idx + 1
    /\ spc' = "Loop"
    /\ UNCHANGED <<mode, bulk, workers, positions, val, argsFen, futures, queue,
                   threads, fut, yielded, summary, calls>>

\* line 30: test(args) raised; nothing in suite.main catches it
SeqRaise ==
    /\ InFrame = {}
    /\ spc = "InTest"
    /\ val[idx].pc = "Raised"
    /\ spc' = "Crashed"
    /\ UNCHANGED <<mode, bulk, workers, positions, val, idx, argsFen, successful,
                   failed, futures, queue, threads, fut, yielded, summary, calls>>

\* line 24: the loop is exhausted; main returns (lines 34-68 are the other branch)
SeqFinish ==
    /\ InFrame = {}
    /\ spc = "Loop"
    /\ idx > Len(positions)
    /\ spc' = "Exit"
    /\ UNCHANGED <<mode, bulk, workers, positions, val, idx, argsFen, successful,
                   failed, futures, queue, threads, fut, yielded, summary, calls>>

\* KeyboardInterrupt in sequential mode: it leaves main, lines 83-86
SeqInterrupt ==
    /\ InFrame = {}
    /\ mode = "sequential"
    /\ spc \in {"Loop", "InTest"}
    /\ spc' = "Exit255"
    /\ val' = [t \in DOMAIN val |->
                  IF t \in Running THEN Release([val[t] EXCEPT !.pc = "Aborted"])
                  ELSE val[t]]
    /\ UNCHANGED <<mode, bulk, workers, positions, idx, argsFen, successful,
                   failed, futures, queue, threads, fut, yielded, summary, calls>>

(*-------------------------- parallel mode --------------------------------*)
\* line 42
CreatePool ==
    /\ InFrame = {}
    /\ spc = "Pool"
    /\ threads' = 0
    /\ spc' = "Submit"
    /\ UNCHANGED <<mode, bulk, workers, positions, val, idx, argsFen, successful,
                   failed, futures, queue, fut, yielded, summary, calls>>

\* a thread per submitted task, whatever max_workers says
AdjustThreadCountUncapped(n, max_workers) == n + 1

\* ThreadPoolExecutor._adjust_thread_count, reached from line 47
AdjustThreadCount(n, max_workers) == IF n < max_workers THEN n + 1 ELSE n

\* lines 43-47: one task per position, each with its own copy of args
Submit ==
    /\ InFrame = {}
    /\ spc = "Submit"
    /\ idx <= Len(positions)
    /\ argsFen' = Strip(positions[idx])
    /\ fut' = [fut EXCEPT ![idx] = [state |-> "pending", fen |-> Strip(positions[idx])]]
    /\ queue' = Append(queue, idx)
    /\ threads' = AdjustThreadCount(threads, workers)
    /\ futures' = Append(futures, [task |-> idx, fen |-> Strip(positions[idx])])
    /\ idx' = idx + 1
    /\ UNCHANGED <<mode, bulk, workers, positions, val, spc, successful, failed,
                   yielded, summary, calls>>

\* line 48: as_completed(futures) is entered
SubmitDone ==
    /\ InFrame = {}
    /\ spc = "Submit"
    /\ idx > Len(positions)
    /\ spc' = "Collect"
    /\ UNCHANGED <<mode, bulk, workers, positions, val, idx, argsFen, successful,
                   failed, futures, queue, threads, fut, yielded, summary, calls>>

Busy == {t \in DOMAIN fut : fut[t].state = "running"}

\* every task is handed the one args object of the submission loop
WorkerTakeSharedArgs ==
    /\ InFrame = {}
    /\ queue # <<>>
    /\ Cardinality(Busy) < threads
    /\ LET t == Head(queue)
       IN /\ queue' = Tail(queue)
          /\ fut' = [fut EXCEPT ![t].state = "running"]
          /\ val' = [val EXCEPT ![t] = FreshCall(argsFen)]
          /\ calls' = Append(calls, t)
    /\ UNCHANGED <<mode, bulk, workers, positions, spc, idx, argsFen, successful,
                   failed, futures, threads, yielded, summary>>

\* a worker thread takes the next work item and enters test(args)
WorkerTake ==
    /\ InFrame = {}
    /\ queue # <<>>
    /\ Cardinality(Busy) < threads
    /\ LET t == Head(queue)
       IN /\ queue' = Tail(queue)
          /\ fut' = [fut EXCEPT ![t].state = "running"]
          /\ val' = [val EXCEPT ![t] = FreshCall(fut[t].fen)]
          /\ calls' = Append(calls, t)
    /\ UNCHANGED <<mode, bulk, workers, positions, spc, idx, argsFen, successful,
                   failed, futures, threads, yielded, summary>>

\* test(args) has returned or raised in a worker: the future is resolved
WorkerFinish(t) ==
    /\ fut[t].state = "running"
    /\ val[t].pc \in Terminal
    /\ fut' = [fut EXCEPT ![t].state = "finished"]
    /\ UNCHANGED <<mode, bulk, workers, positions, val, spc, idx, argsFen,
                   successful, failed, futures, queue, threads, yielded, summary,
                   calls>>

Yielded == {yielded[i] : i \in 1..Len(yielded)}

\* the result of a position that did not pass is thrown away
CollectPassedOnly(t) ==
    /\ InFrame = {}
    /\ spc = "Collect"
    /\ fut[t].state = "finished"
    /\ t \notin Yielded
    /\ Returned(t)
    /\ yielded' = Append(yielded, t)
    /\ LET fen == (CHOOSE f \in {futures[i] : i \in 1..Len(futures)} : f.task = t).fen
       IN IF Code(t) = 0
          THEN successful' = Append(successful, fen) /\ failed' = failed
          ELSE failed' = failed /\ successful' = successful
    /\ UNCHANGED <<mode, bulk, workers, positions, val, spc, idx, argsFen,
                   futures, queue, threads, fut, summary, calls>>

\* a position that did not pass is put at the head of the failed list
CollectFailedFirst(t) ==
    /\ InFrame = {}
    /\ spc = "Collect"
    /\ fut[t].state = "finished"
    /\ t \notin Yielded
    /\ Returned(t)
    /\ yielded' = Append(yielded, t)
    /\ LET fen == (CHOOSE f \in {futures[i] : i \in 1..Len(futures)} : f.task = t).fen
       IN IF Code(t) = 0
          THEN successful' = Append(successful, fen) /\ failed' = failed
          ELSE failed' = <<fen>> \o failed /\ successful' = successful
    /\ UNCHANGED <<mode, bulk, workers, positions, val, spc, idx, argsFen,
                   futures, queue, threads, fut, summary, calls>>

\* lines 48-53: the next completed future, in completion order
Collect(t) ==
    /\ InFrame = {}
    /\ spc = "Collect"
    /\ fut[t].state = "finished"
    /\ t \notin Yielded
    /\ Returned(t)
    /\ yielded' = Append(yielded, t)
    /\ LET fen == (CHOOSE f \in {futures[i] : i \in 1..Len(futures)} : f.task = t).fen
       IN IF Code(t) = 0
          THEN successful' = Append(successful, fen) /\ failed' = failed
          ELSE failed' = Append(failed, fen) /\ successful' = successful
    /\ UNCHANGED <<mode, bulk, workers, positions, val, spc, idx, argsFen,
                   futures, queue, threads, fut, summary, calls>>

\* line 50: future.result() re-raises what test(args) raised
CollectRaise(t) ==
    /\ InFrame = {}
    /\ spc = "Collect"
    /\ fut[t].state = "finished"
    /\ t \notin Yielded
    /\ val[t].pc = "Raised"
    /\ yielded' = Append(yielded, t)
    /\ spc' = "Crashed"
    /\ UNCHANGED <<mode, bulk, workers, positions, val, idx, argsFen, successful,
                   failed, futures, queue, threads, fut, summary, calls>>

\* lines 63-68
Summary ==
    /\ InFrame = {}
    /\ spc = "Collect"
    /\ Len(yielded) = Len(futures)
    /\ summary' = <<[total |-> Len(positions), successful |-> Len(successful),
                     failed |-> Len(failed), interrupted |-> FALSE]>>
    /\ spc' = "Exit"
    /\ UNCHANGED <<mode, bulk, workers, positions, val, idx, argsFen, successful,
                   failed, futures, queue, threads, fut, yielded, calls>>

\* KeyboardInterrupt inside the try block, lines 41-55
ParInterrupt ==
    /\ InFrame = {}
    /\ spc \in {"Submit", "Collect"}
    /\ spc' = "Interrupted"
    /\ UNCHANGED <<mode, bulk, workers, positions, val, idx, argsFen, successful,
                   failed, futures, queue, threads, fut, yielded, summary, calls>>

\* line 56: pool.shutdown(cancel_futures=True) cancels what is still queued
Shutdown ==
    /\ InFrame = {}
    /\ spc = "Interrupted"
    /\ fut' = [t \in DOMAIN fut |->
                  IF fut[t].state = "pending" THEN [fut[t] EXCEPT !.state = "cancelled"]
                  ELSE fut[t]]
    /\ queue' = <<>>
    /\ spc' = "Joining"
    /\ UNCHANGED <<mode, bulk, workers, positions, val, idx, argsFen, successful,
                   failed, futures, threads, yielded, summary, calls>>

\* lines 56-62: shutdown has joined the worker threads
InterruptedSummary ==
    /\ InFrame = {}
    /\ spc = "Joining"
    /\ Busy = {}
    /\ summary' = <<[total |-> Len(successful) + Len(failed),
                     successful |-> Len(successful), failed |-> Len(failed),
                     interrupted |-> TRUE]>>
    /\ spc' = "Exit"
    /\ UNCHANGED <<mode, bulk, workers, positions, val, idx, argsFen, successful,
                   failed, futures, queue, threads, fut, yielded, calls>>

NextSuite ==
    \/ Load
    \/ SeqCall
    \/ SeqClassify
    \/ SeqRaise
    \/ SeqFinish
    \/ SeqInterrupt
    \/ CreatePool
    \/ Submit
    \/ SubmitDone
    \/ WorkerTake
    \/ \E t \in Tasks : WorkerFinish(t)
    \/ \E t \in Tasks : Collect(t)
    \/ \E t \in Tasks : CollectRaise(t)
    \/ Summary
    \/ ParInterrupt
    \/ Shutdown
    \/ InterruptedSummary
    \/ Validate

SpecSuite == InitSuite /\ [][NextSuite]_vars

(***************************************************************************)
(* What the claims speak about.                                            *)
(***************************************************************************)
Range(sq) == {sq[i] : i \in 1..Len(sq)}

\* the move -> count mapping of an output under last-match-wins
LastWins(output) ==
    LET matches == FindAll(output)
        last(m) == CHOOSE i \in 1..Len(matches) :
                      /\ MoveOf(matches[i]) = m
                      /\ \A j \in (i + 1)..Len(matches) : MoveOf(matches[j]) # m
    IN [m \in {MoveOf(matches[i]) : i \in 1..Len(matches)} |->
           IntOf(matches[last(m)].nodes)]

Reference(t) == LastWins(val[t].sfOut)
Candidate(t) == LastWins(val[t].hdOut)

RECURSIVE SumOver(_, _)
SumOver(S, f) ==
    IF S = {} THEN 0
    ELSE LET x == CHOOSE y \in S : TRUE IN f[x] + SumOver(S \ {x}, f)

\* a report is clean iff its three discrepancy classes are empty
Clean(r) == r.missing_stockfish = <<>> /\ r.missing_heimdall = <<>> /\ r.mistakes = <<>>

\* the report of the call t has been built
Reported(t) == val[t].pc \in {"Compared", "Done"}

\* C1: the result code of a validation is 2 if an executable was not located,
\* else 3 if an engine exited non-zero, else 1 if the report is not clean,
\* else 0; it is 0 exactly when a clean report was built and both engines
\* exited with status 0.
C1_ResultCode ==
    \A t \in DOMAIN val :
        Returned(t) =>
            /\ Code(t) = IF val[t].notFound # {} THEN 2
                         ELSE IF val[t].sfRc # 0 \/ val[t].hdRc # 0 THEN 3
                         ELSE IF ~Clean(val[t].rep) THEN 1
                         ELSE 0
            /\ Code(t) = 0 <=> /\ val[t].pc = "Done"
                               /\ Clean(val[t].rep)
                               /\ val[t].sfRc = 0
                               /\ val[t].hdRc = 0

C1_Witness ==
    \E t \in DOMAIN val :
        /\ val[t].pc = "Done"
        /\ Code(t) = 0
        /\ val[t].pos.all # <<>>

\* C2: the list printed as 'Legal moves missed' holds exactly the moves of the
\* reference mapping that the candidate mapping lacks, the list printed as
\* 'Illegal moves generated' exactly the moves of the candidate mapping that
\* the reference mapping lacks, no move is listed twice, and the two lists
\* and the mismatches are pairwise disjoint.
C2_MissingMoves ==
    \A t \in DOMAIN val :
        Reported(t) =>
            LET r == val[t].rep
                R == DOMAIN Reference(t)
                C == DOMAIN Candidate(t)
            IN /\ Range(r.missing_stockfish) = R \ C
               /\ Range(r.missing_heimdall) = C \ R
               /\ Cardinality(Range(r.missing_stockfish)) = Len(r.missing_stockfish)
               /\ Cardinality(Range(r.missing_heimdall)) = Len(r.missing_heimdall)
               /\ Range(r.missing_stockfish) \cap Range(r.missing_heimdall) = {}
               /\ Range(r.missing_stockfish) \cap Range(r.mistakes) = {}
               /\ Range(r.missing_heimdall) \cap Range(r.mistakes) = {}
               /\ Range(r.mistakes) \subseteq R \cap C

C2_Witness ==
    \E t \in DOMAIN val :
        /\ Reported(t)
        /\ val[t].rep.missing_stockfish # <<>>
        /\ val[t].rep.missing_heimdall # <<>>

\* C3: the mismatches are exactly the moves present in both last-match-wins
\* mappings whose final counts differ, for every pair of outputs.
C3_Mismatches ==
    \A t \in DOMAIN val :
        Reported(t) =>
            LET R == Reference(t)
                C == Candidate(t)
            IN Range(val[t].rep.mistakes) =
                   {m \in DOMAIN R \cap DOMAIN C : R[m] # C[m]}

\* C4: when both engines yield the same move -> count mapping the report is
\* clean, and the validation returns 0.
C4_Reflexive ==
    \A t \in DOMAIN val :
        (Reported(t) /\ Reference(t) = Candidate(t)) =>
            /\ Clean(val[t].rep)
            /\ Returned(t) => Code(t) = 0

\* C5: swapping the two outputs swaps the two missing-lists (as sets) and
\* leaves the mismatches as they are.
C5_Symmetric ==
    \A t \in DOMAIN val :
        Reported(t) =>
            LET ab == val[t].rep
                ba == BuildReport(ParseOutputs(val[t].hdOut, val[t].sfOut))
            IN /\ Range(ab.missing_stockfish) = Range(ba.missing_heimdall)
               /\ Range(ab.missing_heimdall) = Range(ba.missing_stockfish)
               /\ ab.mistakes = ba.mistakes

\* C6: the two totals are the sums of the two mappings, and their difference
\* is the sum of R[m] - C[m] over the mismatches plus the sum of R[m] over the
\* moves the candidate lacks minus the sum of C[m] over the moves the
\* reference lacks.
C6_Totals ==
    \A t \in DOMAIN val :
        Reported(t) =>
            LET r == val[t].rep
                R == Reference(t)
                C == Candidate(t)
                diff == [m \in DOMAIN R \cap DOMAIN C |-> R[m] - C[m]]
            IN /\ r.total_stockfish = SumOver(DOMAIN R, R)
               /\ r.total_heimdall = SumOver(DOMAIN C, C)
               /\ r.total_stockfish - r.total_heimdall =
                      SumOver(Range(r.mistakes), diff)
                      + SumOver(Range(r.missing_stockfish), R)
                      - SumOver(Range(r.missing_heimdall), C)

\* C7: when an engine has exited with a non-zero status the call returns 3 and
\* never parses or compares: the steps after the exit check are not reached
\* and the mappings and the report stay unbuilt, whatever the outputs hold.
C7_CrashNotParsed ==
    \A t \in DOMAIN val :
        (val[t].sfRc # 0 \/ val[t].hdRc # 0) =>
            /\ val[t].pc \in {"ReferenceDrained", "OutputCollected", "EngineCrashed"}
            /\ val[t].pos = EmptyPositions
            /\ val[t].rep = NoReport
            /\ val[t].pc = "EngineCrashed" <=> Returned(t)
            /\ Returned(t) => Code(t) = 3

C7_Witness ==
    \E t \in DOMAIN val :
        /\ val[t].pc = "EngineCrashed"
        /\ val[t].sfRc = 0
        /\ val[t].hdRc # 0
        /\ FindAll(val[t].sfOut) # <<>>
        /\ FindAll(val[t].hdOut) # <<>>

\* C8: every launch failure, an executable that is not found as well as one
\* that is found and cannot be started, ends the call in SetupFailed with the
\* value 2 returned, never with an exception.
C8_LaunchFailure ==
    \A t \in DOMAIN val :
        (val[t].notFound # {} \/ val[t].notStarted # {}) =>
            /\ val[t].pc = "SetupFailed"
            /\ val[t].result = <<2>>

\* C9: in sequential mode the calls are made in input order, each position
\* once and one at a time, a position only after the one before it has
\* returned and been classified; when the loop ends every position has been
\* validated exactly once.
C9_SequentialOrder ==
    mode = "sequential" =>
        /\ calls = [i \in 1..Len(calls) |-> i]
        /\ Len(calls) <= Len(positions)
        /\ Cardinality(Running) <= 1
        /\ \A i \in 1..(Len(calls) - 1) : val[i].pc \in Terminal
        /\ Len(successful) + Len(failed) >= Len(calls) - 1
        /\ Len(successful) + Len(failed) <= Len(calls)
        /\ spc = "Exit" =>
              /\ Len(calls) = Len(positions)
              /\ Len(successful) + Len(failed) = Len(positions)

C9_Witness ==
    /\ mode = "sequential"
    /\ spc = "Exit"
    /\ Len(positions) = NumPositions
    /\ successful # <<>>
    /\ failed # <<>>

\* C10: in parallel mode at most one task is submitted per position, in input
\* order, exactly one per position once the submission loop has ended, and at
\* no time are more than args.workers validations running.
C10_BoundedPool ==
    mode = "parallel" =>
        /\ Cardinality(Running) <= workers
        /\ Len(futures) = idx - 1
        /\ \A i \in 1..Len(futures) :
              /\ futures[i].task = i
              /\ futures[i].fen = Strip(positions[i])
        /\ idx <= Len(positions) + 1
        /\ spc = "Collect" => Len(futures) = Len(positions)
        /\ Cardinality(Range(calls)) = Len(calls)

C10_Witness ==
    /\ mode = "parallel"
    /\ workers = 2
    /\ Cardinality(Running) = 2
    /\ spc = "Collect"

\* the number of entries of a list that are equal to x
Count(sq, x) == Cardinality({i \in 1..Len(sq) : sq[i] = x})

\* the FEN a line of the file is validated under: lines 25-28, line 45
Given(line) == IF mode = "sequential" THEN Padded(line) ELSE Strip(line)

\* suite.main has returned and no KeyboardInterrupt was raised
Finished == spc = "Exit" /\ (summary # <<>> => ~summary[1].interrupted)

\* C11: when an uninterrupted suite run finishes, sequential or parallel,
\* every position has been validated and has returned a code, the successful
\* and failed lists together hold the FEN of each position exactly as many
\* times as the file holds it, the successful list holds as many entries as
\* there are positions with code 0, and the two lengths add up to the number
\* of positions.
C11_NoPositionDropped ==
    Finished =>
        /\ \A t \in Tasks : Returned(t)
        /\ \A t \in Tasks :
              Count(successful, Given(positions[t]))
                  + Count(failed, Given(positions[t]))
              = Cardinality({u \in Tasks : Given(positions[u]) = Given(positions[t])})
        /\ Len(successful) = Cardinality({t \in Tasks : Code(t) = 0})
        /\ Len(failed) = Cardinality({t \in Tasks : Code(t) # 0})
        /\ Len(successful) + Len(failed) = Len(positions)

C11_Witness ==
    /\ Finished
    /\ mode = "parallel"
    /\ Len(positions) = NumPositions
    /\ successful # <<>>
    /\ failed # <<>>

\* C12: a suite run that finishes without an interrupt, in sequential mode as
\* well as in parallel mode, has produced its final summary by the time it
\* ends: the number of positions as total, and the lengths of the successful
\* and failed lists as they are after the last position was classified.
C12_FinalSummary ==
    Finished =>
        /\ summary # <<>>
        /\ summary[1].total = Len(positions)
        /\ summary[1].successful = Len(successful)
        /\ summary[1].failed = Len(failed)

\* a KeyboardInterrupt has been raised in this run
InterruptRaised ==
    \/ spc \in {"Interrupted", "Joining", "Exit255"}
    \/ spc = "Exit" /\ ~Finished

\* C13: once the interrupt has been raised no validation begins: from then on
\* no step enters compare_positions.main for a position, whatever the worker
\* threads do between the interrupt and the shutdown of the pool.
C13_NoStartAfterInterrupt == [][InterruptRaised => calls' = calls]_vars

\* C14: after an interrupt the orchestrator does not wait for the validations
\* that are in flight: once the pool has been told to shut down, the step that
\* produces the interrupted summary can be taken whenever the main thread is
\* scheduled, also while a validation is still blocked on its engines.
C14_SummaryWithoutWaiting ==
    (spc = "Joining" /\ InFrame = {}) => ENABLED InterruptedSummary

\* the run has ended and a KeyboardInterrupt was raised in it
EndedInterrupted == spc = "Exit255" \/ (spc = "Exit" /\ ~Finished)

\* C15: an interrupt loses no partial result, in either mode. At the step that
\* raises the interrupt the successful and failed lists hold exactly the
\* validations that have completed (as many successful entries as completed
\* validations with code 0, as many failed entries as the other completed
\* ones); from then on the lists do not change; and the run ends with a
\* summary that reports them.
C15_PartialResultsKept ==
    /\ [][(~InterruptRaised /\ InterruptRaised') =>
             /\ Len(successful') =
                   Cardinality({t \in Tasks : val'[t].result = <<0>>})
             /\ Len(failed') =
                   Cardinality({t \in Tasks : val'[t].result \notin {<<>>, <<0>>}})]_vars
    /\ [][InterruptRaised => UNCHANGED <<successful, failed>>]_vars
    /\ [](EndedInterrupted =>
             /\ summary # <<>>
             /\ summary[1].successful = Len(successful)
             /\ summary[1].failed = Len(failed))

\* C16: the summary of an interrupted parallel run reports the number of
\* positions of the suite as its total, and as successful and failed counts
\* the positions that were classified before the interrupt.
C16_InterruptedTotal ==
    (mode = "parallel" /\ spc = "Exit" /\ summary[1].interrupted) =>
        /\ summary[1].total = Len(positions)
        /\ summary[1].successful + summary[1].failed = Len(successful) + Len(failed)
        /\ Len(successful) + Len(failed) = Len(yielded)

\* the validation of position t ended in an infrastructure failure: an
\* executable not located (code 2), an engine that could not be started
\* (the exception of subprocess.Popen), or an engine that exited non-zero
\* (code 3)
InfrastructureFailure(t) == val[t].pc \in {"SetupFailed", "Raised", "EngineCrashed"}

\* C17: an infrastructure failure on one position aborts the validation of
\* that position only. When a run that was not interrupted has ended and the
\* validation of some position ended in an infrastructure failure, every
\* position of the file has been validated, each has been recorded in one of
\* the two lists, and the position that failed is in the failed list.
C17_FailureIsLocal ==
    (Finished \/ spc = "Crashed") =>
        \A t \in Tasks :
            InfrastructureFailure(t) =>
                /\ \A u \in Tasks : val[u].pc \in Terminal
                /\ Len(successful) + Len(failed) = Len(positions)
                /\ Count(failed, Given(positions[t])) >= 1

\* the positions whose result has been classified: lines 30-33, lines 50-53
Classified ==
    IF mode = "sequential" THEN {t \in Tasks : t < idx /\ Returned(t)}
    ELSE {t \in Yielded : Returned(t)}

\* C18: the result of the suite tells 'could not run' from 'ran and failed':
\* the only lists the suite keeps are successful and failed, so the failed
\* list counts the classified positions that ran and showed a discrepancy
\* (code 1) and no position whose validation could not run (code 2 or 3).
C18_SeparateTally ==
    /\ Len(failed) = Cardinality({t \in Classified : Code(t) = 1})
    /\ Len(successful) = Cardinality({t \in Classified : Code(t) = 0})

\* C19: an empty line of the positions file is validated as the standard
\* initial position: once the commands of its validation have been written,
\* each engine has been sent "position startpos" and neither has been sent
\* a "position fen" command, in sequential and in parallel mode, whatever
\* the other lines of the file are.
C19_EmptyLineIsStartpos ==
    \A t \in Tasks :
        (positions[t] = <<>> /\ val[t].sent # <<>>) =>
            /\ \A e \in {"stockfish", "heimdall"} :
                  Cmd(e, "position startpos", <<>>) \in Range(val[t].sent)
            /\ \A c \in Range(val[t].sent) : c.cmd # "position fen"

\* the order in which the positions are discovered: input order in
\* sequential mode (line 24), the order as_completed yields them in parallel
\* mode (line 48)
Discovery == IF mode = "sequential" THEN [i \in 1..(idx - 1) |-> i] ELSE yielded

DidNotPass(t) == Returned(t) /\ Code(t) # 0

\* the FENs of the positions of a sequence of tasks
FensOf(tasks) == [i \in 1..Len(tasks) |-> Given(positions[tasks[i]])]

IsPrefix(s, t) == Len(s) <= Len(t) /\ SubSeq(t, 1, Len(s)) = s

\* C20: the failed list keeps discovery order. At every moment it is the
\* sequence of the positions that did not pass, in input order in sequential
\* mode and in the order they were collected as completed in parallel mode;
\* and every step leaves the entries it already holds where they are: the
\* list only grows at its end.
C20_DiscoveryOrder ==
    /\ [](failed = FensOf(SelectSeq(Discovery, DidNotPass)))
    /\ [][IsPrefix(failed, failed')]_vars

C20_Witness ==
    /\ mode = "parallel"
    /\ yielded = <<2, 1>>
    /\ Len(failed) = 2
    /\ failed[1] # failed[2]
    /\ failed[1] = Strip(positions[2])

\* the steps of one validation, in the order of the statements of
\* compare_positions.main
StepOrder ==
    <<"NotStarted", "StockfishLocated", "Located", "ReferenceStarted",
      "CandidateStarted", "CommandsSent", "ReferenceDrained", "OutputCollected",
      "ExitChecked", "Parsed", "Compared", "Done">>

Rank(p) == CHOOSE i \in 1..Len(StepOrder) : StepOrder[i] = p

\* the ways a validation ends before its last step
EarlyExit == {"SetupFailed", "Raised", "EngineCrashed", "Aborted"}

\* C21: within one validation the steps occur strictly in the order
\* reference started, candidate started, commands sent, output of both
\* drained, exit statuses checked, output parsed, mappings compared, result
\* returned. Every step of a validation moves it to the next step of that
\* order or ends it; the candidate is started only after the reference; no
\* command is written before both engines are started; nothing is parsed or
\* compared, and no verdict is returned, before both processes have
\* terminated.
C21_StepOrder ==
    /\ [][\A t \in DOMAIN val :
             (val[t].pc \in Range(StepOrder) /\ val'[t].pc # val[t].pc) =>
                 \/ val'[t].pc \in EarlyExit
                 \/ Rank(val'[t].pc) = Rank(val[t].pc) + 1]_vars
    /\ [](\A t \in DOMAIN val :
             /\ val[t].hdProc # "none" => val[t].sfProc # "none"
             /\ val[t].sent # <<>> =>
                   val[t].sfProc # "none" /\ val[t].hdProc # "none"
             /\ (val[t].sfOut # <<>> \/ val[t].hdOut # <<>>) => val[t].sent # <<>>
             /\ (\/ val[t].pos # EmptyPositions
                 \/ val[t].rep # NoReport
                 \/ val[t].pc \in {"ExitChecked", "Parsed", "Compared", "Done"}) =>
                   val[t].sfProc = "exited" /\ val[t].hdProc = "exited"
             /\ val[t].rep # NoReport => val[t].pc \in {"Compared", "Done"}
             /\ val[t].result \in {<<0>>, <<1>>} => val[t].pc = "Done")

C21_Witness ==
    \E t \in DOMAIN val :
        /\ val[t].pc = "Done"
        /\ val[t].sent # <<>>
        /\ val[t].pos # EmptyPositions
        /\ val[t].sfProc = "exited"
        /\ val[t].hdProc = "exited"

\* what one engine has been sent by the call t, in the order it was written
SentTo(t, engine) == SelectSeq(val[t].sent, LAMBDA c : c.to = engine)

\* the position command an engine is due for the FEN of the call t
PositionCommand(t, engine) ==
    IF val[t].fen # <<>> THEN Cmd(engine, "position fen", val[t].fen)
    ELSE Cmd(engine, "position startpos", <<>>)

\* C22: once the commands of a validation are written, the reference engine
\* has been sent its configuration command, then its position command, then
\* "go perft" without the bulk flag; the candidate engine has been sent its
\* position command, then "go perft", with the bulk flag exactly when bulk
\* mode is requested. The position command is "position fen <FEN>" for a
\* non-empty FEN and "position startpos" otherwise.
C22_CommandProtocol ==
    \A t \in DOMAIN val :
        val[t].sent # <<>> =>
            /\ SentTo(t, "stockfish") =
                  <<Cmd("stockfish", "setoption UCI_Chess960", <<>>),
                    PositionCommand(t, "stockfish"),
                    Cmd("stockfish", "go perft", <<>>)>>
            /\ SentTo(t, "heimdall") =
                  <<PositionCommand(t, "heimdall"),
                    Cmd("heimdall", IF bulk THEN "go perft bulk" ELSE "go perft", <<>>)>>
            /\ Len(val[t].sent) = 5

C22_Witness ==
    \E t \in DOMAIN val :
        /\ bulk
        /\ val[t].fen # <<>>
        /\ val[t].sent # <<>>
        /\ val[t].pc = "Done"

Passed(t) == Returned(t) /\ Code(t) = 0

\* C23: in parallel mode every task works on its own arguments. The FEN a
\* task validates, and the one in the position command it writes to its two
\* engines, is the FEN recorded for its future at submission (the stripped
\* line of the file), whatever was submitted after it and whatever else is
\* running; and the entries of successful and failed are the recorded FENs of
\* the tasks that returned 0, respectively another code, in the order they
\* were collected.
C23_PrivateArguments ==
    mode = "parallel" =>
        /\ \A t \in Tasks :
              val[t].pc # "Idle" =>
                  /\ val[t].fen = futures[t].fen
                  /\ val[t].fen = Strip(positions[t])
                  /\ val[t].sent # <<>> =>
                        \A e \in {"stockfish", "heimdall"} :
                            /\ PositionCommand(t, e) \in Range(val[t].sent)
                            /\ \A c \in Range(val[t].sent) :
                                  c.cmd = "position fen" => c.arg = futures[t].fen
        /\ successful = [i \in 1..Len(SelectSeq(yielded, Passed)) |->
                            futures[SelectSeq(yielded, Passed)[i]].fen]
        /\ failed = [i \in 1..Len(SelectSeq(yielded, DidNotPass)) |->
                        futures[SelectSeq(yielded, DidNotPass)[i]].fen]

C23_Witness ==
    /\ mode = "parallel"
    /\ Len(positions) = 2
    /\ positions[1] # positions[2]
    /\ idx = 3
    /\ val[1].sent # <<>>
    /\ val[2].sent # <<>>
    /\ Cardinality(Running) = 2

\* the state of the process the call t started for an engine
Process(t, engine) == IF engine = "stockfish" THEN val[t].sfProc ELSE val[t].hdProc

PositionCmds == {"position fen", "position startpos"}
GoCmds == {"go perft", "go perft bulk"}

\* how many commands of a kind the call t has written to an engine
Written(t, engine, kinds) ==
    Cardinality({i \in 1..Len(val[t].sent) :
                    val[t].sent[i].to = engine /\ val[t].sent[i].cmd \in kinds})

\* C24: no retries. No position's validation is started twice in a suite run,
\* and when a validation has ended, whatever its outcome, every engine process
\* it started has been given exactly one position command and exactly one
\* "go perft" command.
C24_NoRetries ==
    /\ Cardinality(Range(calls)) = Len(calls)
    /\ \A t \in DOMAIN val :
          val[t].pc \in Terminal =>
              \A e \in {"stockfish", "heimdall"} :
                  Process(t, e) # "none" =>
                      /\ Written(t, e, PositionCmds) = 1
                      /\ Written(t, e, GoCmds) = 1

\* lexical order of two tokens: at the first place where they differ, a has
\* the smaller character or has ended
LexBefore(a, b) ==
    \E k \in 1..Len(b) :
        /\ \A i \in 1..(k - 1) : i <= Len(a) /\ a[i] = b[i]
        /\ k > Len(a) \/ a[k] < b[k]

\* C25: the mismatches of a report are strictly ascending in lexical order
\* of the move token, so no token is listed twice and e7e8 comes before
\* e7e8q, in whatever order the engines printed their lines; and sorting
\* loses none: they are the moves the comparison found to differ.
C25_MismatchesSorted ==
    \A t \in DOMAIN val :
        Reported(t) =>
            LET m == val[t].rep.mistakes
            IN /\ \A i \in 1..Len(m), j \in 1..Len(m) : i < j => LexBefore(m[i], m[j])
               /\ Range(m) = Classify(val[t].pos, EmptyReport, val[t].pos.all).mistakes

C25_Witness ==
    \E t \in DOMAIN val :
        /\ Reported(t)
        /\ val[t].rep.mistakes = <<e7 \o e8, e7 \o e8 \o promoQ>>
        /\ FindAll(val[t].sfOut)[1].promotion = promoQ
        /\ FindAll(val[t].hdOut)[1].promotion = promoQ

\* lines 112-121: the breakdown pattern is searched in the candidate's output,
\* and only when bulk mode is off; it matches the whole block only
BreakdownFound(t) ==
    /\ ~bulk
    /\ \E i \in 1..Len(val[t].hdOut) : val[t].hdOut[i] = BreakdownBlock

IsBreakdown(line) == line \in {BreakdownBlock, BrokenBlock}
NotBreakdown(line) == ~IsBreakdown(line)

\* an output with the breakdown taken out, whole or broken
WithoutBreakdown(output) == SelectSeq(output, NotBreakdown)

\* C26: the move-type breakdown never affects the verdict. The value a
\* validation returns is the one it would return for the same move lines
\* and exit statuses with no breakdown in either output: whether the block
\* is there, is broken or is missing, in the candidate's output or in the
\* reference's, with bulk mode on or off, the mappings, the report and the
\* result code are the same.
C26_BreakdownIrrelevant ==
    \A t \in DOMAIN val :
        LET sf == WithoutBreakdown(val[t].sfOut)
            hd == WithoutBreakdown(val[t].hdOut)
            parsed == ParseOutputs(sf, hd)
            report == BuildReport(parsed)
        IN /\ val[t].pc \in {"Parsed", "Compared", "Done"} => val[t].pos = parsed
           /\ Reported(t) => val[t].rep = report
           /\ val[t].pc = "Done" =>
                 /\ Code(t) = Verdict(report)
                 /\ Code(t) \in {0, 1}
           /\ val[t].pc = "EngineCrashed" => Code(t) = 3

C26_Witness ==
    \E t \in DOMAIN val :
        /\ val[t].pc = "Done"
        /\ BreakdownFound(t)
        /\ Code(t) = 1
        /\ FindAll(val[t].hdOut) # <<>>

\* C27: when either executable cannot be located the validation returns 2
\* with no engine process spawned and no command written: a missing
\* candidate leaves no started reference process behind.
C27_NothingSpawned ==
    \A t \in DOMAIN val :
        (val[t].notFound # {} \/ val[t].pc = "SetupFailed") =>
            /\ val[t].pc = "SetupFailed"
            /\ val[t].result = <<2>>
            /\ val[t].sfProc = "none"
            /\ val[t].hdProc = "none"
            /\ val[t].sent = <<>>
            /\ val[t].sfOut = <<>> /\ val[t].hdOut = <<>>

C27_Witness ==
    \E t \in DOMAIN val :
        /\ val[t].notFound = {"heimdall"}
        /\ val[t].result = <<2>>

\* C28: sequential and parallel mode agree. What a line of the file leads to
\* does not depend on the mode: in either mode the commands written for it
\* are those for the stripped line, which are the ones parallel mode writes,
\* and the entry recorded for it in successful or failed is the stripped
\* line, so that engines that answer by the commands they get give both modes
\* the same successful and failed positions.
C28_ModesAgree ==
    /\ \A t \in Tasks :
          val[t].sent # <<>> => val[t].sent = Commands(Strip(positions[t]), bulk)
    /\ Range(successful) \cup Range(failed) \subseteq {Strip(positions[t]) : t \in Tasks}

\* every position of the file has been classified
AllClassified == Len(successful) + Len(failed) = Len(positions)

\* C29: termination. A suite run over a non-empty list of positions in which
\* no interrupt occurs, whose engines all terminate and whose threads are
\* scheduled fairly, goes on until it has finished with every position
\* classified: as long as it has not, some step of the run can be taken, so
\* that it never comes to rest anywhere else.
C29_Termination ==
    (positions # <<>> /\ ~InterruptRaised /\ ~ENABLED NextSuite) =>
        (Finished /\ AllClassified)

====
